---- MODULE Spec2Model ----
(***************************************************************************)
(* The air-gapped signing keyring of keystone-airgaped.                    *)
(*                                                                         *)
(* Two keyring classes live in the repository and both are modelled:       *)
(*   BaseKeyring      packages/base-eth-keyring/src/BaseKeyring.ts         *)
(*   AirGapedKeyring  the earlier keyring (second half of part_000)        *)
(* One keyring instance is modelled; keyringClass says which class it is.  *)
(* AirGapedKeyring's fields `paths` (address -> index) and `latestAccount` *)
(* are held in the variables indexes and unlockedAccount, which are the    *)
(* names BaseKeyring gives the same two fields.                            *)
(*                                                                         *)
(* Errors are named by the message the code throws:                        *)
(*   "mismatched requestId"   CorrelationMismatch                          *)
(*   "play canceled", "read signature canceled"   UserCanceled             *)
(*   "Unknown address"        UnknownAddress                               *)
(*   "keyring not fulfilled"  NotInitialized                               *)
(*   "not found in this keyring"   AddressNotFound                         *)
(*   "cannot get fingerprint" InvalidDeviceData                            *)
(***************************************************************************)
EXTENDS Integers, Sequences, FiniteSets, TLC

\* ------------------------------------------------------------------------
\* Program constants
\* ------------------------------------------------------------------------
MAX_INDEX == 1000

DEFAULT_CHILDREN_PATH == <<"0", "*">>

pathBase == "m"

\* byte offsets of the signature components
R_END == 32

S_END == 64

\* AirGapedKeyring.readSignature takes v as signature.slice(64, 65)
V_END_LEGACY == 65

\* perPage as the constructors set it
DEFAULT_PER_PAGE == 5

\* ------------------------------------------------------------------------
\* Bounds of the model
\* ------------------------------------------------------------------------
\* signing requests started on one keyring
MaxRequests == 3

\* longest raw signature a response carries
MaxSigLen == 67

\* largest n given to addAccounts and largest index given to
\* setAccountToUnlock
MaxUnlock == 2

\* getNextPage is not called past this page
MaxPage == 2

\* addAccounts is not called once accounts would grow past this length
MaxAccounts == 3

\* addAccounts calls in progress at the same time
MaxUnlocking == 2

\* ------------------------------------------------------------------------
\* Values
\* ------------------------------------------------------------------------
BaseClass == "BaseKeyring"

LegacyClass == "AirGapedKeyring"

HD == "hd"

PUBKEY == "pubkey"

Range(f) == {f[x] : x \in DOMAIN f}

Min(a, b) == IF a < b THEN a ELSE b

Max(a, b) == IF a > b THEN a ELSE b

\* Buffer.slice(start, end): the bytes at offsets [start, end), both clamped
\* to the buffer.
Slice(buf, start, end) ==
    LET s == Min(start, Len(buf))
        e == Min(end, Len(buf))
    IN  IF e <= s THEN <<>> ELSE SubSeq(buf, s + 1, e)

\* Buffer.slice(start): everything from offset start on.
SliceFrom(buf, start) == Slice(buf, start, Len(buf))

\* An address is the public key it was computed from and the letter case
\* of its hex digits: "lower" as publicToAddress(..).toString('hex') gives
\* it, "checksum" as toChecksumAddress gives it, "upper" as a caller may
\* write it.
publicToAddress(pk) == [pk |-> pk, form |-> "lower"]

toChecksumAddress(a) == [pk |-> a.pk, form |-> "checksum"]

toLowerCase(a) == [pk |-> a.pk, form |-> "lower"]

\* uuid.stringify(buffer): the string form of a 16-byte identifier.
\* uuid.v4() returns string forms; a response carries the buffer form.
UuidStringify(buf) == [uuid |-> buf]

\* ------------------------------------------------------------------------
\* State
\* ------------------------------------------------------------------------
VARIABLES
    keyringClass,     \* which of the two classes this instance is
    xfp,              \* master fingerprint, "" when unset
    xpub,             \* extended public key, "" when unset
    hdPath,           \* account path as its components, <<>> for ''
    childrenPath,     \* children-path template as its components
    keyringMode,      \* HD or PUBKEY
    keyringAccount,   \* account.standard / ledger_live / ledger_legacy
    name,
    initialized,
    accounts,         \* sequence of addresses
    currentAccount,
    page,
    perPage,
    indexes,          \* address -> index (AirGapedKeyring: its `paths`)
    paths,            \* BaseKeyring: sequence of <<address, path>>, in
                      \* insertion order as Object.entries lists them
    hdk,              \* the key the HDKey node was built from, NoHdk if none
    unlockedAccount,  \* unlock cursor (AirGapedKeyring: latestAccount)
    flow,             \* the signing operation in progress or last finished
    issued,           \* request identifiers generated so far, in order
    rejected,         \* has a response been rejected that carried the
                      \* identifier of an earlier request
    last,             \* the last completed facade call and what it returned
    device,           \* the descriptor the paired device shows when read
    unlocking         \* the addAccounts calls suspended at an await, each
                      \* with its loop variables and the awaited result

keyringVars ==
    <<keyringClass, xfp, xpub, hdPath, childrenPath, keyringMode,
      keyringAccount, name, initialized, accounts, currentAccount, page,
      perPage, indexes, paths, hdk, unlockedAccount, unlocking>>

signVars == <<flow, issued, rejected>>

vars == <<keyringVars, signVars, last, device>>

NoHdk == ""

NoPk == [xpub |-> "", path |-> <<>>]

NoAddress == [pk |-> NoPk, form |-> "none"]

EmptyMap == [a \in {} |-> 0]

\* obj[key] = value on a Record<string, number>
MapPut(m, k, v) == [a \in DOMAIN m \cup {k} |-> IF a = k THEN v ELSE m[a]]

\* obj[key] = value on a Record<string, string> held in insertion order: an
\* existing key keeps its place, a new key goes last.
PathsHas(ps, k) == \E j \in 1..Len(ps) : ps[j][1] = k

PathsGet(ps, k) == ps[CHOOSE j \in 1..Len(ps) : ps[j][1] = k][2]

PathsPut(ps, k, v) ==
    IF PathsHas(ps, k)
    THEN [j \in 1..Len(ps) |-> IF ps[j][1] = k THEN <<k, v>> ELSE ps[j]]
    ELSE Append(ps, <<k, v>>)

\* ------------------------------------------------------------------------
\* Path Deriver
\* ------------------------------------------------------------------------
\* checkKeyring(): throws unless xfp, xpub and hdPath are all non-empty
checkKeyringFails(f, x, h) == f = "" \/ x = "" \/ h = <<>>

FirstStar(tmpl) ==
    IF \E k \in 1..Len(tmpl) : tmpl[k] = "*"
    THEN CHOOSE k \in 1..Len(tmpl) :
            /\ tmpl[k] = "*"
            /\ \A j \in 1..(k - 1) : tmpl[j] # "*"
    ELSE 0

\* a resolution that writes the index at every wildcard
ResolveChildren_EveryStar(tmpl, i) ==
    [k \in 1..Len(tmpl) |-> IF tmpl[k] = "*" THEN ToString(i) ELSE tmpl[k]]

\* childrenPath.replace('*', String(i)).replaceAll('*', '0')
ResolveChildren(tmpl, i) ==
    [k \in 1..Len(tmpl) |->
        IF tmpl[k] = "*"
        THEN (IF k = FirstStar(tmpl) THEN ToString(i) ELSE "0")
        ELSE tmpl[k]]

\* AirGapedKeyring derives at `${pb}/0/${i}`
LegacyChildren(i) == <<"0", ToString(i)>>

\* hdk.derive(path).publicKey of the node built from extended key `node`
DerivePublicKey(node, childPath) == [xpub |-> node, path |-> childPath]

\* the components n' for the numbers n a path may carry, each with n as
\* i.toString() writes it (f @@ <<>> is f, held as an explicit table)
Unquoted ==
    [c \in {ToString(n) \o "'" : n \in 0..MAX_INDEX} |->
        ToString(CHOOSE n \in 0..MAX_INDEX : c = ToString(n) \o "'")] @@ <<>>

\* path component with its first "'" removed: replace("'", '')
StripQuote(c) == IF c \in DOMAIN Unquoted THEN Unquoted[c] ELSE c

\* Object.entries(paths).find(entry => path.split('/')[3].replace("'", '')
\*   === i.toString()): find visits the entries in insertion order and
\* stops at the first one that matches; at an entry whose path has fewer
\* than four components path.split('/')[3] is undefined and the callback
\* throws. LedgerLiveStop is the position where find stops, 0 if it runs
\* through.
LedgerLiveShort(entry) == Len(entry[2]) < 4

LedgerLiveMatch(entry, i) ==
    /\ ~LedgerLiveShort(entry)
    /\ StripQuote(entry[2][4]) = ToString(i)

LedgerLiveStop(ps, i) ==
    IF \E j \in 1..Len(ps) : LedgerLiveShort(ps[j]) \/ LedgerLiveMatch(ps[j], i)
    THEN CHOOSE j \in 1..Len(ps) :
            /\ LedgerLiveShort(ps[j]) \/ LedgerLiveMatch(ps[j], i)
            /\ \A h \in 1..(j - 1) :
                  ~(LedgerLiveShort(ps[h]) \/ LedgerLiveMatch(ps[h], i))
    ELSE 0

\* a derivation that does not call checkKeyring
AddressFromIndex_Unchecked(cls, mode, failsCheck, node, tmpl, ps, i) ==
    IF cls = LegacyClass
    THEN [err |-> "",
          address |-> toChecksumAddress(publicToAddress(
                         DerivePublicKey(node, LegacyChildren(i))))]
    ELSE IF mode = HD
    THEN [err |-> "",
          address |-> toChecksumAddress(publicToAddress(
                         DerivePublicKey(node, ResolveChildren(tmpl, i))))]
    ELSE IF LedgerLiveStop(ps, i) = 0
    THEN [err |-> "no_expected_account", address |-> NoAddress]
    ELSE IF LedgerLiveShort(ps[LedgerLiveStop(ps, i)])
    THEN [err |-> "TypeError", address |-> NoAddress]
    ELSE [err |-> "", address |-> toChecksumAddress(ps[LedgerLiveStop(ps, i)][1])]

\* __addressFromIndex(pb, i) of BaseKeyring and _addressFromIndex(pb, i) of
\* AirGapedKeyring, as a function of the fields it reads; node is the key
\* of the HDKey instance in use. Returns the error thrown ("" if none) and
\* the address.
AddressFromIndex(cls, mode, failsCheck, node, tmpl, ps, i) ==
    IF cls = LegacyClass
    THEN IF failsCheck
         THEN [err |-> "keyring not fulfilled", address |-> NoAddress]
         ELSE [err |-> "",
               address |-> toChecksumAddress(publicToAddress(
                              DerivePublicKey(node, LegacyChildren(i))))]
    ELSE IF mode = HD
    THEN IF failsCheck
         THEN [err |-> "keyring not fulfilled", address |-> NoAddress]
         ELSE [err |-> "",
               address |-> toChecksumAddress(publicToAddress(
                              DerivePublicKey(node, ResolveChildren(tmpl, i))))]
    ELSE IF LedgerLiveStop(ps, i) = 0
    THEN [err |-> "no_expected_account", address |-> NoAddress]
    ELSE IF LedgerLiveShort(ps[LedgerLiveStop(ps, i)])
    THEN [err |-> "TypeError", address |-> NoAddress]
    ELSE [err |-> "", address |-> toChecksumAddress(ps[LedgerLiveStop(ps, i)][1])]

\* if (!this.hdk) this.hdk = HDKey.fromExtendedKey(this.xpub)
HdkInUse == IF hdk = NoHdk THEN xpub ELSE hdk

\* does __addressFromIndex reach the hdk initialisation in this state
DerivesLocally ==
    /\ keyringClass = LegacyClass \/ keyringMode = HD
    /\ ~checkKeyringFails(xfp, xpub, hdPath)

\* the call on the current state
addressFromIndex(i) ==
    AddressFromIndex(keyringClass, keyringMode,
                     checkKeyringFails(xfp, xpub, hdPath), HdkInUse,
                     childrenPath, paths, i)

\* The extended keys and children-path templates of the devices modelled
Xpubs == {"xpubA", "xpubB"}

Templates == {<<"0", "*">>, <<"*", "*">>}

\* The addresses the brute-force scan of _pathFromAddress compares with:
\* __addressFromIndex(pb, i) for i = 0 .. MAX_INDEX - 1, tabulated per
\* class, key and template (the scan runs only once checkKeyring has
\* passed, and only where addresses are derived from the key).
ScanTable ==
    [cls \in {BaseClass, LegacyClass}, node \in Xpubs, tmpl \in Templates |->
        [i \in 0..(MAX_INDEX - 1) |->
            AddressFromIndex(cls, HD, FALSE, node, tmpl, <<>>, i).address]
        @@ <<>>] @@ <<>>

\* the addresses of a table, as a set
ScanRange ==
    [cls \in {BaseClass, LegacyClass}, node \in Xpubs, tmpl \in Templates |->
        {ScanTable[cls, node, tmpl][i] : i \in 0..(MAX_INDEX - 1)}] @@ <<>>

\* mutant: the scan stops one index short of MAX_INDEX
BruteForce_StopsEarly(cs) ==
    LET table == ScanTable[keyringClass, HdkInUse, childrenPath] IN
    IF \E i \in 0..(MAX_INDEX - 2) : table[i] = cs
    THEN CHOOSE i \in 0..(MAX_INDEX - 2) :
            /\ table[i] = cs
            /\ \A j \in 0..(i - 1) : table[j] # cs
    ELSE -1

\* for (let i = 0; i < MAX_INDEX; i++) if (checksummedAddress ===
\*   __addressFromIndex(pathBase, i)) { index = i; break; }
\* the index found, -1 if the loop runs through (which it does exactly when
\* the address is none of the table's)
BruteForce(cs) ==
    LET table == ScanTable[keyringClass, HdkInUse, childrenPath] IN
    IF cs \in ScanRange[keyringClass, HdkInUse, childrenPath]
    THEN CHOOSE i \in DOMAIN table :
            /\ table[i] = cs
            /\ \A j \in 0..(i - 1) : table[j] # cs
    ELSE -1

\* _pathFromAddress(address): the path a signing request carries for the
\* address. Returns the error thrown ("" if none), the path, and whether the
\* brute-force scan ran (it calls __addressFromIndex, which builds hdk).
\* In HD mode __addressFromIndex throws only from checkKeyring, whatever
\* the index, so the scan throws at index 0 or not at all.
PathFromAddress(address) ==
    LET cs == toChecksumAddress(address) IN
    IF keyringClass = BaseClass /\ keyringMode = PUBKEY
    THEN IF PathsHas(paths, cs)
         THEN [err |-> "", path |-> PathsGet(paths, cs), scanned |-> FALSE]
         ELSE [err |-> "Unknown address", path |-> <<>>, scanned |-> FALSE]
    ELSE IF cs \in DOMAIN indexes
    THEN [err |-> "",
          path |-> hdPath \o <<"0", ToString(indexes[cs])>>,
          scanned |-> FALSE]
    ELSE IF checkKeyringFails(xfp, xpub, hdPath)
    THEN [err |-> "keyring not fulfilled", path |-> <<>>, scanned |-> TRUE]
    ELSE LET index == BruteForce(cs) IN
         IF index = -1
         THEN [err |-> "Unknown address", path |-> <<>>, scanned |-> TRUE]
         ELSE [err |-> "",
               path |-> hdPath \o <<"0", ToString(index)>>,
               scanned |-> TRUE]

\* ------------------------------------------------------------------------
\* Signing Coordinator
\* ------------------------------------------------------------------------
TRANSACTION == "transaction"

PERSONAL_MESSAGE == "personalMessage"

TYPED_DATA == "typedData"

DataTypes == {TRANSACTION, PERSONAL_MESSAGE, TYPED_DATA}

\* 16-byte identifiers, in their buffer form
UUIDs == 1..MaxRequests

\* mutant: the identifier is the same for every request
NewRequestIds_Repeats(used) == {[uuid |-> 1]}

\* uuid.v4(): a random 128-bit identifier. It is modelled by its contract:
\* any identifier this keyring has not generated before.
NewRequestIds(used) == {UuidStringify(b) : b \in UUIDs} \ used

NoUuid == [uuid |-> 0]

\* raw signature of n bytes; the byte at offset k-1 has value k mod 256
SigBytes(n) == [k \in 1..n |-> k % 256]

SigLens == {0, S_END} \cup (V_END_LEGACY..MaxSigLen)

\* a signature envelope: requestId is <<>> when the device sent none
Envelopes ==
    [requestId : {<<>>} \cup {<<b>> : b \in UUIDs},
     signature : {SigBytes(n) : n \in SigLens}]

NoEnvelope == [requestId |-> <<>>, signature |-> <<>>]

NoSig == [r |-> <<>>, s |-> <<>>, v |-> <<>>]

\* the v component: BaseKeyring takes signature.slice(64), AirGapedKeyring
\* signature.slice(64, 65)
SliceV(cls, signature) ==
    IF cls = BaseClass
    THEN SliceFrom(signature, S_END)
    ELSE Slice(signature, S_END, V_END_LEGACY)

\* mutant: the identifier is not compared
RequestIdAccepted_Unchecked(sentId, envelope) == TRUE

\* mutant: a response without an identifier is refused
RequestIdAccepted_Required(sentId, envelope) ==
    /\ envelope.requestId # <<>>
    /\ UuidStringify(envelope.requestId[1]) = sentId

\* does the response's identifier pass the check against the one sent
RequestIdAccepted(sentId, envelope) ==
    \/ envelope.requestId = <<>>
    \/ UuidStringify(envelope.requestId[1]) = sentId

\* requestSignature (BaseKeyring) / readSignature (AirGapedKeyring) from the
\* point where the envelope is in hand
DecodeSignature(cls, sentId, envelope) ==
    IF ~RequestIdAccepted(sentId, envelope)
    THEN [err |-> "mismatched requestId", sig |-> NoSig]
    ELSE [err |-> "",
          sig |-> [r |-> Slice(envelope.signature, 0, R_END),
                   s |-> Slice(envelope.signature, R_END, S_END),
                   v |-> SliceV(cls, envelope.signature)]]

\* serializeTx(tx): v = chainId, r = s = 0, then serialize
serializeTx(tx) == [body |-> tx.body, v |-> tx.chainId, r |-> 0, s |-> 0]

\* EthSignRequest.constructETHRequest(signData, dataType, hdPath, xfp,
\*                                    requestId, chainId, address)
SignRequest(kind, signer, input, path, requestId) ==
    IF kind = TRANSACTION
    THEN [signData |-> serializeTx(input), dataType |-> kind, path |-> path,
          xfp |-> xfp, requestId |-> requestId, chainId |-> <<input.chainId>>,
          address |-> <<>>]
    ELSE [signData |-> input, dataType |-> kind, path |-> path,
          xfp |-> xfp, requestId |-> requestId, chainId |-> <<>>,
          address |-> <<signer>>]

NoRequest ==
    [signData |-> <<>>, dataType |-> "", path |-> <<>>, xfp |-> "",
     requestId |-> NoUuid, chainId |-> <<>>, address |-> <<>>]

\* what the facade returns: the transaction rebuilt with r, s, v, or
\* '0x' + hex(r | s | v)
SignedArtifact(kind, input, sig) ==
    IF kind = TRANSACTION
    THEN [body |-> input.body, chainId |-> input.chainId,
          r |-> sig.r, s |-> sig.s, v |-> sig.v]
    ELSE [hex |-> sig.r \o sig.s \o sig.v]

NoArtifact == [none |-> TRUE]

IdleFlow ==
    [phase |-> "Idle", kind |-> "", signer |-> NoAddress, input |-> <<>>,
     requestId |-> NoUuid, request |-> NoRequest, playStatus |-> "",
     readStarted |-> FALSE, response |-> NoEnvelope, err |-> "",
     sig |-> NoSig, ret |-> NoArtifact]

FlowEnded == flow.phase \in {"Idle", "Validated", "Canceled", "Mismatched", "Failed"}

SignInputs(kind) ==
    IF kind = TRANSACTION
    THEN {[body |-> "tx", chainId |-> 1]}
    ELSE IF kind = PERSONAL_MESSAGE THEN {<<"de", "ad">>}
    ELSE {<<"typed">>}

\* ------------------------------------------------------------------------
\* Construction and persistence
\* ------------------------------------------------------------------------
STANDARD == "account.standard"

LEDGER_LIVE == "account.ledger_live"

LEDGER_LEGACY == "account.ledger_legacy"

\* the fields as the constructor sets them before it calls deserialize
ConstructorDefaults ==
    [xfp |-> "", xpub |-> "", hdPath |-> <<>>,
     childrenPath |-> DEFAULT_CHILDREN_PATH, keyringMode |-> HD,
     keyringAccount |-> STANDARD, name |-> "QR Hardware",
     initialized |-> FALSE, accounts |-> <<>>, currentAccount |-> 0,
     page |-> 0, perPage |-> DEFAULT_PER_PAGE, indexes |-> EmptyMap,
     paths |-> <<>>]

\* the fields of the current state
Fields ==
    [xfp |-> xfp, xpub |-> xpub, hdPath |-> hdPath,
     childrenPath |-> childrenPath, keyringMode |-> keyringMode,
     keyringAccount |-> keyringAccount, name |-> name,
     initialized |-> initialized, accounts |-> accounts,
     currentAccount |-> currentAccount, page |-> page, perPage |-> perPage,
     indexes |-> indexes, paths |-> paths]

\* mutant: the children path is not written from the field
Serialize_ForgetsChildrenPath(cls, f) ==
    IF cls = BaseClass
    THEN [initialized |-> f.initialized, accounts |-> f.accounts,
          currentAccount |-> f.currentAccount, page |-> f.page,
          perPage |-> f.perPage, keyringAccount |-> f.keyringAccount,
          keyringMode |-> f.keyringMode, name |-> f.name, version |-> 1,
          xfp |-> f.xfp, xpub |-> f.xpub, hdPath |-> f.hdPath,
          childrenPath |-> DEFAULT_CHILDREN_PATH, indexes |-> f.indexes,
          paths |-> f.paths]
    ELSE [xfp |-> f.xfp, xpub |-> f.xpub, hdPath |-> f.hdPath,
          accounts |-> f.accounts, currentAccount |-> f.currentAccount,
          page |-> 0, perPage |-> f.perPage, paths |-> f.indexes]

\* serialize(): the stored record. An optional field that is absent, and an
\* empty string, are both written "" (<<>> for a path): `x || default`
\* treats the two alike. AirGapedKeyring stores eight fields, its `paths`
\* being the address -> index table.
Serialize(cls, f) ==
    IF cls = BaseClass
    THEN [initialized |-> f.initialized, accounts |-> f.accounts,
          currentAccount |-> f.currentAccount, page |-> f.page,
          perPage |-> f.perPage, keyringAccount |-> f.keyringAccount,
          keyringMode |-> f.keyringMode, name |-> f.name, version |-> 1,
          xfp |-> f.xfp, xpub |-> f.xpub, hdPath |-> f.hdPath,
          childrenPath |-> f.childrenPath, indexes |-> f.indexes,
          paths |-> f.paths]
    ELSE [xfp |-> f.xfp, xpub |-> f.xpub, hdPath |-> f.hdPath,
          accounts |-> f.accounts, currentAccount |-> f.currentAccount,
          page |-> f.page, perPage |-> f.perPage, paths |-> f.indexes]

\* deserialize(opts) on an instance whose fields are f
Deserialize(cls, f, opts) ==
    IF cls = BaseClass
    THEN [f EXCEPT
            !.accounts = opts.accounts,
            !.currentAccount = opts.currentAccount,
            !.page = opts.page,
            !.perPage = opts.perPage,
            !.name = opts.name,
            !.initialized = opts.initialized,
            !.keyringMode =
                IF opts.keyringMode = "" THEN HD ELSE opts.keyringMode,
            !.keyringAccount =
                IF opts.keyringAccount = "" THEN STANDARD
                ELSE opts.keyringAccount,
            !.xfp = opts.xfp,
            !.xpub = opts.xpub,
            !.hdPath = opts.hdPath,
            !.indexes = opts.indexes,
            !.paths = opts.paths,
            !.childrenPath =
                IF opts.childrenPath = <<>> THEN DEFAULT_CHILDREN_PATH
                ELSE opts.childrenPath]
    ELSE [f EXCEPT
            !.xfp = opts.xfp,
            !.xpub = opts.xpub,
            !.hdPath = opts.hdPath,
            !.accounts = opts.accounts,
            !.currentAccount = opts.currentAccount,
            !.page = opts.page,
            !.perPage = opts.perPage,
            !.indexes = opts.paths]

\* the fields take the values of record f
SetFields(f) ==
    /\ xfp' = f.xfp
    /\ xpub' = f.xpub
    /\ hdPath' = f.hdPath
    /\ childrenPath' = f.childrenPath
    /\ keyringMode' = f.keyringMode
    /\ keyringAccount' = f.keyringAccount
    /\ name' = f.name
    /\ initialized' = f.initialized
    /\ accounts' = f.accounts
    /\ currentAccount' = f.currentAccount
    /\ page' = f.page
    /\ perPage' = f.perPage
    /\ indexes' = f.indexes
    /\ paths' = f.paths

\* no facade call has been made on the instance whose fields are f
NoCall(f) ==
    [op |-> "", arg |-> <<>>, err |-> "", ret |-> <<>>, read |-> FALSE,
     pre |-> f @@ [hdk |-> NoHdk, unlockedAccount |-> 0]]

\* new BaseKeyring(opts) / new AirGapedKeyring(opts): the state once the
\* constructor has returned. opts = <<>> is the call without a record.
Constructed(cls, opts) ==
    LET f == IF opts = <<>> THEN ConstructorDefaults
             ELSE Deserialize(cls, ConstructorDefaults, opts[1])
    IN
    /\ keyringClass = cls
    /\ xfp = f.xfp
    /\ xpub = f.xpub
    /\ hdPath = f.hdPath
    /\ childrenPath = f.childrenPath
    /\ keyringMode = f.keyringMode
    /\ keyringAccount = f.keyringAccount
    /\ name = f.name
    /\ initialized = f.initialized
    /\ accounts = f.accounts
    /\ currentAccount = f.currentAccount
    /\ page = f.page
    /\ perPage = f.perPage
    /\ indexes = f.indexes
    /\ paths = f.paths
    /\ hdk = NoHdk
    /\ unlockedAccount = 0
    /\ unlocking = <<>>
    /\ flow = IdleFlow
    /\ issued = <<>>
    /\ rejected = FALSE
    /\ last = NoCall(f)

\* AirGapedKeyring.getEmptyKeyring()
LegacyEmptyRecord ==
    [xfp |-> "", xpub |-> "", hdPath |-> <<>>, perPage |-> DEFAULT_PER_PAGE,
     page |-> 0, accounts |-> <<>>, currentAccount |-> 0, paths |-> EmptyMap]

\* ------------------------------------------------------------------------
\* Devices and the records used as inputs
\* ------------------------------------------------------------------------
XpubA == "xpubA"

XpubB == "xpubB"

Fingerprint == "12345678"

AccountPath == <<"m", "44'", "60'", "0'">>

\* the address the device's key xp yields at children path 0/i
HdAddress(xp, i) ==
    toChecksumAddress(publicToAddress(DerivePublicKey(xp, <<"0", ToString(i)>>)))

\* a ledger-live account: key and path M/44'/60'/i'/0/0
LedgerLivePath(i) == <<"M", "44'", "60'", ToString(i) \o "'", "0", "0">>

LedgerLiveKey(i) == [xpub |-> "ledgerlive", path |-> LedgerLivePath(i)]

LedgerLiveAddress(i) == toChecksumAddress(publicToAddress(LedgerLiveKey(i)))

\* the record serialize() writes after readKeyring, getFirstPage and
\* addAccounts(2) on an HD device
StoredHd(cls) ==
    Serialize(cls,
        [ConstructorDefaults EXCEPT
            !.xfp = Fingerprint, !.xpub = XpubA, !.hdPath = AccountPath,
            !.initialized = TRUE,
            !.accounts = <<HdAddress(XpubA, 0), HdAddress(XpubA, 1)>>,
            !.indexes = [a \in {HdAddress(XpubA, i) : i \in 0..(DEFAULT_PER_PAGE - 1)}
                            |-> CHOOSE i \in 0..(DEFAULT_PER_PAGE - 1) :
                                    a = HdAddress(XpubA, i)]])

\* the record serialize() writes after readKeyring of a two-account
\* ledger-live device and addAccounts(1)
StoredPubkey ==
    Serialize(BaseClass,
        [ConstructorDefaults EXCEPT
            !.xfp = Fingerprint, !.initialized = TRUE,
            !.keyringMode = PUBKEY, !.keyringAccount = LEDGER_LIVE,
            !.name = "Keystone",
            !.accounts = <<LedgerLiveAddress(0)>>,
            !.paths = <<<<LedgerLiveAddress(0), LedgerLivePath(0)>>,
                        <<LedgerLiveAddress(1), LedgerLivePath(1)>>>>])

\* The stored records handed to deserialize. A BaseKeyring record may have
\* been written before keyringMode, keyringAccount and childrenPath were
\* stored (the fields are then absent, written "" and <<>> here), and its
\* version is any number; an AirGapedKeyring record has its eight fields.
StoredVersions == {1, 2}

StoredRecords(cls) ==
    IF cls = BaseClass
    THEN {[S EXCEPT !.keyringMode = IF m THEN "" ELSE @,
                    !.keyringAccount = IF a THEN "" ELSE @,
                    !.childrenPath = c,
                    !.version = v] :
            S \in {StoredHd(BaseClass), StoredPubkey,
                   Serialize(BaseClass, ConstructorDefaults)},
            m \in BOOLEAN, a \in BOOLEAN,
            c \in {<<>>} \cup Templates, v \in StoredVersions}
    ELSE {StoredHd(LegacyClass), LegacyEmptyRecord,
          [StoredHd(LegacyClass) EXCEPT !.page = 1, !.currentAccount = 1]}

\* ------------------------------------------------------------------------
\* The keyring as one object, and the device reads
\* ------------------------------------------------------------------------
\* the instance: its stored fields, the HDKey node and the unlock cursor
This ==
    [xfp |-> xfp, xpub |-> xpub, hdPath |-> hdPath,
     childrenPath |-> childrenPath, keyringMode |-> keyringMode,
     keyringAccount |-> keyringAccount, name |-> name,
     initialized |-> initialized, accounts |-> accounts,
     currentAccount |-> currentAccount, page |-> page, perPage |-> perPage,
     indexes |-> indexes, paths |-> paths, hdk |-> hdk,
     unlockedAccount |-> unlockedAccount]

\* the instance takes the values of record k
Becomes(k) ==
    /\ SetFields(k)
    /\ hdk' = k.hdk
    /\ unlockedAccount' = k.unlockedAccount
    /\ keyringClass' = keyringClass

\* __addressFromIndex(pb, i) on instance k
AddressAt(cls, k, i) ==
    AddressFromIndex(cls, k.keyringMode,
                     checkKeyringFails(k.xfp, k.xpub, k.hdPath),
                     IF k.hdk = NoHdk THEN k.xpub ELSE k.hdk,
                     k.childrenPath, k.paths, i)

\* instance k once __addressFromIndex has been called on it: the call
\* builds this.hdk when there is none, after checkKeyring has passed
WithHdk(cls, k) ==
    IF /\ cls = LegacyClass \/ k.keyringMode = HD
       /\ ~checkKeyringFails(k.xfp, k.xpub, k.hdPath)
       /\ k.hdk = NoHdk
    THEN [k EXCEPT !.hdk = k.xpub]
    ELSE k

CRYPTO_HDKEY == "crypto-hdkey"

CRYPTO_ACCOUNT == "crypto-account"

\* what a device shows: an HD-key descriptor ...
HdKeyDescriptor(fp, xp, children, nm, note) ==
    [type |-> CRYPTO_HDKEY, xfp |-> fp, xpub |-> xp,
     origin |-> <<"44'", "60'", "0'">>, children |-> children,
     name |-> nm, note |-> note, outputs |-> <<>>]

\* ... or a multi-account descriptor, with one output descriptor per
\* ledger-live account 0 .. n-1
AccountDescriptor(fp, n) ==
    [type |-> CRYPTO_ACCOUNT, xfp |-> fp, xpub |-> "", origin |-> <<>>,
     children |-> <<>>, name |-> "", note |-> "",
     outputs |-> [j \in 1..n |->
                    [key |-> LedgerLiveKey(j - 1),
                     origin |-> Tail(LedgerLivePath(j - 1)),
                     name |-> "Keystone", note |-> LEDGER_LIVE]]]

\* how many accounts the ledger-live device enumerates
LedgerLiveAccounts == DEFAULT_PER_PAGE + 1

\* the outcomes of readCryptoHDKeyOrCryptoAccount(): <<>> is the rejected
\* promise (the scan was canceled), <<d>> a descriptor. xfp "" is a
\* descriptor without fingerprint, children <<>> one without children path,
\* name "" one without name.
Descriptors ==
    {HdKeyDescriptor(Fingerprint, XpubA, <<>>, "Keystone", STANDARD),
     HdKeyDescriptor(Fingerprint, XpubB, <<"*", "*">>, "", LEDGER_LEGACY),
     HdKeyDescriptor("", XpubA, <<"0", "*">>, "Keystone", LEDGER_LEGACY),
     AccountDescriptor(Fingerprint, LedgerLiveAccounts),
     AccountDescriptor("", 1)}

\* a registry item that is neither a CryptoHDKey nor a CryptoAccount: it
\* has neither's accessors
CRYPTO_OUTPUT == "crypto-output"

OtherDescriptor ==
    [type |-> CRYPTO_OUTPUT, xfp |-> Fingerprint, xpub |-> XpubA,
     origin |-> <<"44'", "60'", "0'">>, children |-> <<>>, name |-> "",
     note |-> "", outputs |-> <<>>]

\* the devices a keyring of the class can be paired with: keystoneSDK.read
\* of AirGapedKeyring accepts UR_CRYPTO_HDKEY only
Devices(cls) ==
    IF cls = BaseClass THEN Descriptors
    ELSE {d \in Descriptors : d.type = CRYPTO_HDKEY}

ReadOutcomes == {<<>>, <<device>>}

\* a read that marks the keyring initialized before the fingerprint test
ReadCryptoHDKey_MarksFirst(k, d) ==
    IF d.xfp = ""
    THEN [k |-> [k EXCEPT !.initialized = TRUE],
          err |-> "cannot get fingerprint"]
    ELSE [k |-> [k EXCEPT
                    !.xfp = d.xfp,
                    !.xpub = d.xpub,
                    !.hdPath = <<"m">> \o d.origin,
                    !.childrenPath = IF d.children = <<>>
                                     THEN DEFAULT_CHILDREN_PATH
                                     ELSE d.children,
                    !.initialized = TRUE],
          err |-> ""]

\* a read that starts the keyring over: accounts and index table emptied
ReadCryptoHDKey_Resets(k, d) ==
    IF d.xfp = ""
    THEN [k |-> k, err |-> "cannot get fingerprint"]
    ELSE [k |-> [k EXCEPT
                    !.xfp = d.xfp,
                    !.xpub = d.xpub,
                    !.hdPath = <<"m">> \o d.origin,
                    !.childrenPath = IF d.children = <<>>
                                     THEN DEFAULT_CHILDREN_PATH
                                     ELSE d.children,
                    !.initialized = TRUE,
                    !.accounts = <<>>,
                    !.indexes = EmptyMap],
          err |-> ""]

\* __readCryptoHDKey(cryptoHDKey) on instance k
ReadCryptoHDKey(k, d) ==
    LET k1 == IF d.note = STANDARD
              THEN [k EXCEPT !.keyringAccount = STANDARD]
              ELSE IF d.note = LEDGER_LEGACY
              THEN [k EXCEPT !.keyringAccount = LEDGER_LEGACY]
              ELSE k
    IN
    IF d.xfp = ""
    THEN [k |-> k1, err |-> "cannot get fingerprint"]
    ELSE [k |-> [k1 EXCEPT
                    !.xfp = d.xfp,
                    !.xpub = d.xpub,
                    !.hdPath = <<"m">> \o d.origin,
                    !.childrenPath = IF d.children = <<>>
                                     THEN DEFAULT_CHILDREN_PATH
                                     ELSE d.children,
                    !.name = IF d.name # "" THEN d.name ELSE k1.name,
                    !.initialized = TRUE],
          err |-> ""]

\* the forEach of __readCryptoAccount over the output descriptors
RECURSIVE ReadOutputs(_, _)
ReadOutputs(k, ods) ==
    IF ods = <<>> THEN k
    ELSE LET od == Head(ods)
             address == publicToAddress(od.key)
         IN  ReadOutputs(
                [k EXCEPT
                    !.name = od.name,
                    !.keyringAccount = IF od.note = LEDGER_LIVE
                                       THEN LEDGER_LIVE ELSE @,
                    !.paths = PathsPut(@, toChecksumAddress(address),
                                       <<"M">> \o od.origin)],
                Tail(ods))

\* __readCryptoAccount(cryptoAccount) on instance k. readKeyring casts
\* whatever is not a CryptoHDKey to CryptoAccount; on an object without
\* getMasterFingerprint the first statement throws a TypeError.
ReadCryptoAccount(k, d) ==
    IF d.type # CRYPTO_ACCOUNT
    THEN [k |-> k, err |-> "TypeError"]
    ELSE IF d.xfp = ""
    THEN [k |-> k, err |-> "cannot get fingerprint"]
    ELSE [k |-> ReadOutputs([k EXCEPT !.xfp = d.xfp, !.initialized = TRUE],
                            d.outputs),
          err |-> ""]

\* readKeyring() on instance k with the transport's outcome.
\* AirGapedKeyring reads an HD-key descriptor only and keeps its
\* fingerprint, key and path.
ReadKeyringOn(cls, k, outcome) ==
    IF outcome = <<>>
    THEN [k |-> k, err |-> "read canceled"]
    ELSE LET d == outcome[1] IN
         IF cls = LegacyClass
         THEN IF d.xfp = ""
              THEN [k |-> k, err |-> "cannot get fingerprint"]
              ELSE [k |-> [k EXCEPT !.xfp = d.xfp, !.xpub = d.xpub,
                                    !.hdPath = <<"m">> \o d.origin],
                    err |-> ""]
         ELSE IF d.type = CRYPTO_HDKEY
         THEN ReadCryptoHDKey([k EXCEPT !.keyringMode = HD], d)
         ELSE ReadCryptoAccount([k EXCEPT !.keyringMode = PUBKEY], d)

\* ------------------------------------------------------------------------
\* Signing operations: signTransaction, signPersonalMessage (signMessage),
\* signTypedData. One operation at a time per keyring.
\* ------------------------------------------------------------------------
\* addresses callers ask to sign with: one in the cache, one in the cache
\* written in lower case, one the scan finds, one of another device, and,
\* for the first request of a keyring, the last one the scan reaches and
\* the first one past it
Signers ==
    IF keyringClass = BaseClass /\ keyringMode = PUBKEY
    THEN {toLowerCase(LedgerLiveAddress(0)), LedgerLiveAddress(1),
          HdAddress(XpubA, 0)}
    ELSE {HdAddress(XpubA, 0),
          toLowerCase(HdAddress(XpubA, 1)),
          HdAddress(XpubA, DEFAULT_PER_PAGE + 2),
          HdAddress(XpubB, 0)}
         \cup (IF issued = <<>>
                THEN {HdAddress(XpubA, MAX_INDEX - 1),
                      HdAddress(XpubA, MAX_INDEX)}
                ELSE {})

\* the call up to its first await on the transport: resolve the path,
\* generate the identifier, build the request, hand it over. BaseKeyring
\* awaits getInteraction().requestSignature(..), AirGapedKeyring awaits
\* keystoneSDK.play(..).
SignStart(kind, signer, input) ==
    /\ FlowEnded
    /\ Len(issued) < MaxRequests
    /\ LET p == PathFromAddress(signer)
           begun == [IdleFlow EXCEPT !.kind = kind, !.signer = signer,
                                     !.input = input]
       IN
       /\ hdk' = IF p.scanned /\ DerivesLocally THEN HdkInUse ELSE hdk
       /\ IF p.err # ""
          THEN /\ flow' = [begun EXCEPT !.phase = "Failed", !.err = p.err]
               /\ issued' = issued
          ELSE \E id \in NewRequestIds(Range(issued)) :
               /\ flow' = [begun EXCEPT
                             !.phase = IF keyringClass = BaseClass
                                       THEN "Interaction" ELSE "Displayed",
                             !.requestId = id,
                             !.request = SignRequest(kind, signer, input,
                                                     p.path, id)]
               /\ issued' = Append(issued, id)
    /\ UNCHANGED <<keyringClass, xfp, xpub, hdPath, childrenPath, keyringMode,
                   keyringAccount, name, initialized, accounts,
                   currentAccount, page, perPage, indexes, paths,
                   unlockedAccount, unlocking, rejected, last, device>>

\* the envelope is in hand: check the identifier, split the signature,
\* build what the facade returns
Finished(f, envelope) ==
    LET d == DecodeSignature(keyringClass, f.requestId, envelope) IN
    IF d.err # ""
    THEN [f EXCEPT !.phase = "Mismatched", !.response = envelope,
                   !.err = d.err]
    ELSE [f EXCEPT !.phase = "Validated", !.response = envelope,
                   !.sig = d.sig,
                   !.ret = SignedArtifact(f.kind, f.input, d.sig)]

\* the identifiers of the requests before the one in progress
EarlierIds == {issued[k] : k \in 1..(Len(issued) - 1)}

CountRejected(f) ==
    \/ rejected
    \/ /\ f.phase = "Mismatched"
       /\ f.response.requestId # <<>>
       /\ UuidStringify(f.response.requestId[1]) \in EarlierIds

\* AirGapedKeyring: keystoneSDK.play resolved with PlayStatus.success; the
\* operation goes on to readSignature and awaits keystoneSDK.read
PlayCompleted ==
    /\ keyringClass = LegacyClass
    /\ flow.phase = "Displayed"
    /\ flow' = [flow EXCEPT !.phase = "AwaitingResponse",
                            !.playStatus = "completed",
                            !.readStarted = TRUE]
    /\ UNCHANGED <<keyringVars, issued, rejected, last, device>>

\* mutant: the play status is not looked at, the read starts regardless
PlayCanceled_ReadsAnyway ==
    /\ keyringClass = LegacyClass
    /\ flow.phase = "Displayed"
    /\ flow' = [flow EXCEPT !.phase = "AwaitingResponse",
                            !.playStatus = "canceled",
                            !.readStarted = TRUE]
    /\ UNCHANGED <<keyringVars, issued, rejected, last, device>>

\* AirGapedKeyring: keystoneSDK.play resolved with PlayStatus.canceled
PlayCanceled ==
    /\ keyringClass = LegacyClass
    /\ flow.phase = "Displayed"
    /\ flow' = [flow EXCEPT !.phase = "Canceled",
                            !.playStatus = "canceled",
                            !.err = "play canceled"]
    /\ UNCHANGED <<keyringVars, issued, rejected, last, device>>

\* AirGapedKeyring.readSignature: keystoneSDK.read resolved with
\* ReadStatus.canceled
ReadCanceled ==
    /\ keyringClass = LegacyClass
    /\ flow.phase = "AwaitingResponse"
    /\ flow' = [flow EXCEPT !.phase = "Canceled",
                            !.err = "read signature canceled"]
    /\ UNCHANGED <<keyringVars, issued, rejected, last, device>>

\* AirGapedKeyring.readSignature: keystoneSDK.read resolved with a scan
ReadSucceeded(envelope) ==
    /\ keyringClass = LegacyClass
    /\ flow.phase = "AwaitingResponse"
    /\ flow' = Finished(flow, envelope)
    /\ rejected' = CountRejected(flow')
    /\ UNCHANGED <<keyringVars, issued, last, device>>

\* BaseKeyring.requestSignature: getInteraction().requestSignature resolved
InteractionResolved(envelope) ==
    /\ keyringClass = BaseClass
    /\ flow.phase = "Interaction"
    /\ flow' = Finished(flow, envelope)
    /\ rejected' = CountRejected(flow')
    /\ UNCHANGED <<keyringVars, issued, last, device>>

\* BaseKeyring.requestSignature: getInteraction().requestSignature rejected
\* (the provider reports a cancellation by rejecting)
InteractionRejected ==
    /\ keyringClass = BaseClass
    /\ flow.phase = "Interaction"
    /\ flow' = [flow EXCEPT !.phase = "Canceled",
                            !.err = "interaction rejected"]
    /\ UNCHANGED <<keyringVars, issued, rejected, last, device>>

SignInit ==
    /\ \/ \E cls \in {BaseClass, LegacyClass} :
             Constructed(cls, <<StoredHd(cls)>>)
       \/ Constructed(BaseClass, <<StoredPubkey>>)
    /\ device = HdKeyDescriptor(Fingerprint, XpubA, <<>>, "Keystone", STANDARD)

SignNext ==
    \/ \E kind \in DataTypes, signer \in Signers :
          \E input \in SignInputs(kind) : SignStart(kind, signer, input)
    \/ PlayCompleted
    \/ PlayCanceled
    \/ ReadCanceled
    \/ \E envelope \in Envelopes : ReadSucceeded(envelope)
    \/ \E envelope \in Envelopes : InteractionResolved(envelope)
    \/ InteractionRejected

SignSpec == SignInit /\ [][SignNext]_vars

\* ------------------------------------------------------------------------
\* Account Window: pages and unlocking
\* ------------------------------------------------------------------------
\* for (let i = from; i < to; i++) { address = await __addressFromIndex(..)
\* ...}: the index at which the loop stops because the call throws, `to` if
\* it runs through
LoopStop(cls, k, from, to) ==
    IF \E i \in from..(to - 1) : AddressAt(cls, k, i).err # ""
    THEN CHOOSE i \in from..(to - 1) :
            /\ AddressAt(cls, k, i).err # ""
            /\ \A j \in from..(i - 1) : AddressAt(cls, k, j).err = ""
    ELSE to

\* accounts.push({address, balance: null, index: i}) for i = from .. to-1
PageEntries(cls, k, from, to) ==
    [j \in 1..(to - from) |->
        [address |-> AddressAt(cls, k, from + j - 1).address,
         balance |-> "null",
         index |-> from + j - 1]]

\* this.indexes[toChecksumAddress(address)] = i for i = from .. to-1, in
\* that order: an address produced twice keeps the later index
IndexesAfter(m, cls, k, from, to) ==
    LET addr(i) == toChecksumAddress(AddressAt(cls, k, i).address) IN
    [a \in DOMAIN m \cup {addr(i) : i \in from..(to - 1)} |->
        IF \E i \in from..(to - 1) : addr(i) = a
        THEN CHOOSE i \in from..(to - 1) :
                /\ addr(i) = a
                /\ \A j \in (i + 1)..(to - 1) : addr(j) # a
        ELSE m[a]]

\* mutant: the cursor is not brought back to 1
ClampPage_None(p) == p

\* if (this.page <= 0) this.page = 1
ClampPage(p) == IF p <= 0 THEN 1 ELSE p

\* mutant: the first index is that of the following page
PageFrom_NextPage(p, pp) == p * pp

\* const from = (page - 1) * this.perPage
PageFrom(p, pp) == (p - 1) * pp

\* __getNormalPage(increment) of BaseKeyring, __getPage(increment) of
\* AirGapedKeyring
NormalPage(cls, k, increment) ==
    LET p == ClampPage(k.page + increment)
        from == PageFrom(p, k.perPage)
        to == from + k.perPage
        stop == LoopStop(cls, k, from, to)
        k1 == IF from < to THEN WithHdk(cls, k) ELSE k
    IN  [k |-> [k1 EXCEPT !.page = p,
                          !.indexes = IndexesAfter(@, cls, k, from, stop)],
         err |-> IF stop < to THEN AddressAt(cls, k, stop).err ELSE "",
         ret |-> IF stop < to THEN <<>> ELSE PageEntries(cls, k, from, to)]

\* __getLedgerLivePage(increment)
LedgerLivePage(cls, k, increment) ==
    LET nextPage == k.page + increment
        from == PageFrom(nextPage, k.perPage)
        to == from + k.perPage
        stop == LoopStop(cls, k, from, to)
    IN  IF stop < to
        THEN [k |-> k, err |-> AddressAt(cls, k, stop).err, ret |-> <<>>]
        ELSE [k |-> [k EXCEPT !.page = k.page + increment],
              err |-> "",
              ret |-> PageEntries(cls, k, from, to)]

\* a __getPage that reads the device on every call
NeedsRead_Always(cls, k) == cls = BaseClass

\* does __getPage start with a device read
NeedsRead(cls, k) == cls = BaseClass /\ ~k.initialized

\* __getPage(increment): BaseKeyring reads the keyring first when it is not
\* initialized, then serves the page by mode
GetPage(cls, k, increment, outcome) ==
    LET r == IF NeedsRead(cls, k) THEN ReadKeyringOn(cls, k, outcome)
             ELSE [k |-> k, err |-> ""]
        served == IF r.err # ""
                  THEN [k |-> r.k, err |-> r.err, ret |-> <<>>]
                  ELSE IF cls = LegacyClass \/ r.k.keyringMode = HD
                  THEN NormalPage(cls, r.k, increment)
                  ELSE LedgerLivePage(cls, r.k, increment)
    IN  [k |-> served.k, err |-> served.err, ret |-> served.ret,
         read |-> NeedsRead(cls, k)]

\* mutant: the cursor is not put back before the page is served
GetFirstPageOn_NoReset(cls, k, outcome) == GetPage(cls, k, 1, outcome)

\* getFirstPage(): this.page = 0; return this.__getPage(1)
GetFirstPageOn(cls, k, outcome) ==
    GetPage(cls, [k EXCEPT !.page = 0], 1, outcome)

\* getNextPage(): return this.__getPage(1)
GetNextPageOn(cls, k, outcome) == GetPage(cls, k, 1, outcome)

\* getPreviousPage(): return this.__getPage(-1)
GetPreviousPageOn(cls, k, outcome) == GetPage(cls, k, -1, outcome)

\* the addresses pushed to newAccounts for i = from .. to-1
NewAccounts(cls, k, from, to) ==
    [j \in 1..(to - from) |-> AddressAt(cls, k, from + j - 1).address]

\* mutant: the new addresses replace accounts instead of extending it
AddAccountsOn_Replaces(cls, k, n) ==
    LET from == k.unlockedAccount
        to == from + n
        stop == LoopStop(cls, k, from, to)
        k1 == IF from < to THEN WithHdk(cls, k) ELSE k
        k2 == [k1 EXCEPT !.page = IF stop > from THEN 0 ELSE @,
                         !.unlockedAccount = stop]
    IN  IF stop < to
        THEN [k |-> k2, err |-> AddressAt(cls, k, stop).err, ret |-> <<>>]
        ELSE [k |-> [k2 EXCEPT !.accounts = NewAccounts(cls, k, from, to)],
              err |-> "",
              ret |-> NewAccounts(cls, k, from, to)]

\* mutant: each address is appended to accounts as soon as it is produced
AddAccountsOn_KeepsPartial(cls, k, n) ==
    LET from == k.unlockedAccount
        to == from + n
        stop == LoopStop(cls, k, from, to)
        k1 == IF from < to THEN WithHdk(cls, k) ELSE k
        k2 == [k1 EXCEPT !.page = IF stop > from THEN 0 ELSE @,
                         !.unlockedAccount = stop,
                         !.accounts = @ \o NewAccounts(cls, k, from, stop)]
    IN  IF stop < to
        THEN [k |-> k2, err |-> AddressAt(cls, k, stop).err, ret |-> <<>>]
        ELSE [k |-> k2, err |-> "", ret |-> k2.accounts]

\* addAccounts(n)
AddAccountsOn(cls, k, n) ==
    LET from == k.unlockedAccount
        to == from + n
        stop == LoopStop(cls, k, from, to)
        k1 == IF from < to THEN WithHdk(cls, k) ELSE k
        k2 == [k1 EXCEPT !.page = IF stop > from THEN 0 ELSE @,
                         !.unlockedAccount = stop]
    IN  IF stop < to
        THEN [k |-> k2, err |-> AddressAt(cls, k, stop).err, ret |-> <<>>]
        ELSE [k |-> [k2 EXCEPT !.accounts = @ \o NewAccounts(cls, k, from, to)],
              err |-> "",
              ret |-> k.accounts \o NewAccounts(cls, k, from, to)]

\* setAccountToUnlock(index): this.unlockedAccount = parseInt(index, 10)
SetAccountToUnlockOn(k, index) == [k EXCEPT !.unlockedAccount = index]

\* setCurrentAccount(index): this.currentAccount = index
SetCurrentAccountOn(k, index) == [k EXCEPT !.currentAccount = index]

\* mutant: the addresses are compared as written
RemoveAccountOn_CaseSensitive(k, address) ==
    LET Kept(a) == a # address IN
    IF \A j \in 1..Len(k.accounts) : Kept(k.accounts[j])
    THEN [k |-> k, err |-> "not found in this keyring", ret |-> <<>>]
    ELSE [k |-> [k EXCEPT !.accounts = SelectSeq(@, Kept)],
          err |-> "", ret |-> <<>>]

\* removeAccount(address): throws unless some entry of accounts equals the
\* address once both are lower-cased, then filters those entries out
RemoveAccountOn(k, address) ==
    LET Kept(a) == toLowerCase(a) # toLowerCase(address) IN
    IF \A j \in 1..Len(k.accounts) : Kept(k.accounts[j])
    THEN [k |-> k, err |-> "not found in this keyring", ret |-> <<>>]
    ELSE [k |-> [k EXCEPT !.accounts = SelectSeq(@, Kept)],
          err |-> "", ret |-> <<>>]

\* ------------------------------------------------------------------------
\* Facade calls. Each runs to completion before the next starts; `last`
\* records the call, its argument, the error it threw ("" if none), what
\* it returned, whether it asked the transport for a device read, and the
\* instance as the call found it.
\* ------------------------------------------------------------------------
Called(op, arg, r) ==
    /\ Becomes(r.k)
    /\ last' = [op |-> op, arg |-> arg, err |-> r.err, ret |-> r.ret,
                read |-> r.read, pre |-> This]
    /\ UNCHANGED <<signVars, device, unlocking>>

\* the transport outcomes a page call may meet
PageOutcomes(k) ==
    IF NeedsRead(keyringClass, k) THEN ReadOutcomes ELSE {<<>>}

ReadKeyring(outcome) ==
    LET r == ReadKeyringOn(keyringClass, This, outcome) IN
    Called("readKeyring", outcome,
           [k |-> r.k, err |-> r.err, ret |-> <<>>, read |-> TRUE])

GetFirstPage(outcome) ==
    Called("getFirstPage", outcome, GetFirstPageOn(keyringClass, This, outcome))

GetNextPage(outcome) ==
    /\ page < MaxPage
    /\ Called("getNextPage", outcome, GetNextPageOn(keyringClass, This, outcome))

GetPreviousPage(outcome) ==
    Called("getPreviousPage", outcome,
           GetPreviousPageOn(keyringClass, This, outcome))

AddAccounts(n) ==
    /\ Len(accounts) + n <= MaxAccounts
    /\ Called("addAccounts", n,
              AddAccountsOn(keyringClass, This, n) @@ [read |-> FALSE])

\* the indexes callers select to unlock from
UnlockIndexes == {0, MaxUnlock, LedgerLiveAccounts - 1}

SetAccountToUnlock(index) ==
    /\ keyringClass = BaseClass
    /\ Called("setAccountToUnlock", index,
              [k |-> SetAccountToUnlockOn(This, index), err |-> "",
               ret |-> <<>>, read |-> FALSE])

\* the indexes callers pass to setCurrentAccount
SetCurrentAccount(index) ==
    Called("setCurrentAccount", index,
           [k |-> SetCurrentAccountOn(This, index), err |-> "", ret |-> <<>>,
            read |-> FALSE])

\* an address as a caller may write it: with checksum case or in capitals
Written(a) == {[pk |-> a.pk, form |-> f] : f \in {"checksum", "upper"}}

\* the addresses callers ask to remove: those of accounts and one that was
\* never unlocked
RemovalTargets ==
    UNION {Written(a) : a \in Range(accounts) \cup {HdAddress(XpubA, MAX_INDEX)}}

RemoveAccount(address) ==
    Called("removeAccount", address,
           RemoveAccountOn(This, address) @@ [read |-> FALSE])

\* serialize(): returns the record, changes nothing
SerializeCall ==
    Called("serialize", <<>>,
           [k |-> This, err |-> "", ret |-> Serialize(keyringClass, Fields),
            read |-> FALSE])

\* deserialize(opts) on this instance: the stored fields are assigned, the
\* HDKey node and the unlock cursor are not touched
DeserializeCall(opts) ==
    Called("deserialize", opts,
           [k |-> Deserialize(keyringClass, Fields, opts)
                    @@ [hdk |-> hdk, unlockedAccount |-> unlockedAccount],
            err |-> "", ret |-> <<>>, read |-> FALSE])

\* the records a caller has to hand over: stored ones, and the one
\* serialize() has just returned
RecordsAtHand ==
    StoredRecords(keyringClass)
        \cup (IF last.op = "serialize" THEN {last.ret} ELSE {})

\* the instance new BaseKeyring(opts) / new AirGapedKeyring(opts) returns
\* for the record opts: the constructor's defaults, deserialize(opts), no
\* HDKey node, and the unlock cursor at 0
Restored(cls, opts) ==
    Deserialize(cls, ConstructorDefaults, opts)
        @@ [hdk |-> NoHdk, unlockedAccount |-> 0]

\* the application restarts: the keyring is replaced by a new one built
\* from the record serialize() returns
Restart ==
    Called("restart", Serialize(keyringClass, Fields),
           [k |-> Restored(keyringClass, Serialize(keyringClass, Fields)),
            err |-> "", ret |-> <<>>, read |-> FALSE])

\* addAccounts(n), n >= 1, of BaseKeyring up to its first await: from and
\* to are fixed, __addressFromIndex(pathBase, from) has run, and the call
\* is suspended on its result. Nothing has been counted yet.
AddAccountsBegin(n) ==
    /\ keyringClass = BaseClass
    /\ Len(unlocking) < MaxUnlocking
    /\ unlockedAccount + n <= MaxAccounts
    /\ Becomes(WithHdk(keyringClass, This))
    /\ unlocking' = Append(unlocking,
                           [n |-> n, i |-> unlockedAccount,
                            to |-> unlockedAccount + n,
                            newAccounts |-> <<>>,
                            awaited |-> AddressAt(keyringClass, This,
                                                  unlockedAccount)])
    /\ UNCHANGED <<signVars, last, device>>

\* the suspended calls but the j-th
Others(j) ==
    [h \in 1..(Len(unlocking) - 1) |->
        IF h < j THEN unlocking[h] ELSE unlocking[h + 1]]

\* the j-th suspended addAccounts goes on from its await: a rejection ends
\* the call; otherwise the address is pushed, page and unlock cursor are
\* set, and the loop either awaits the next address or ends, in which case
\* accounts is extended and the call resolves
AddAccountsResume(j) ==
    LET c == unlocking[j]
        newAccounts == Append(c.newAccounts, c.awaited.address)
        counted == [This EXCEPT !.page = 0, !.unlockedAccount = @ + 1]
        ended == [counted EXCEPT !.accounts = @ \o newAccounts]
    IN
    /\ IF c.awaited.err # ""
       THEN /\ Becomes(This)
            /\ unlocking' = Others(j)
            /\ last' = [op |-> "addAccounts", arg |-> c.n,
                        err |-> c.awaited.err, ret |-> <<>>,
                        read |-> FALSE, pre |-> This]
       ELSE IF c.i + 1 < c.to
       THEN /\ Becomes(WithHdk(keyringClass, counted))
            /\ unlocking' =
                  [unlocking EXCEPT
                     ![j] = [c EXCEPT
                               !.i = @ + 1,
                               !.newAccounts = newAccounts,
                               !.awaited = AddressAt(keyringClass, counted,
                                                     c.i + 1)]]
            /\ last' = last
       ELSE /\ Becomes(ended)
            /\ unlocking' = Others(j)
            /\ last' = [op |-> "addAccounts", arg |-> c.n, err |-> "",
                        ret |-> ended.accounts, read |-> FALSE,
                        pre |-> This]
    /\ UNCHANGED <<signVars, device>>

\* the user pairs another device: later reads show its descriptor
Pair(d) ==
    /\ device # d
    /\ device' = d
    /\ UNCHANGED <<keyringVars, signVars, last>>

\* the descriptors a read may return: the transport of BaseKeyring may hand
\* over any registry item, keystoneSDK.read of AirGapedKeyring HD keys only
Pairable == Devices(keyringClass) \cup
            (IF keyringClass = BaseClass THEN {OtherDescriptor} ELSE {})

\* new BaseKeyring() or AirGapedKeyring.getEmptyKeyring()
Init ==
    \/ Constructed(BaseClass, <<>>) /\ device \in Devices(BaseClass)
    \/ /\ Constructed(LegacyClass, <<LegacyEmptyRecord>>)
       /\ device \in Devices(LegacyClass)

\* Unlocking: device reads, addAccounts, setAccountToUnlock, and
\* getFirstPage to move the page cursor off 0
Next ==
    \/ \E outcome \in ReadOutcomes : ReadKeyring(outcome)
    \/ \E outcome \in PageOutcomes(This) : GetFirstPage(outcome)
    \/ \E n \in 0..MaxUnlock : AddAccounts(n)
    \/ \E index \in UnlockIndexes : SetAccountToUnlock(index)

Spec == Init /\ [][Next]_vars

\* Paging: device reads, the three page calls, and addAccounts(1), which
\* puts the page cursor back to 0
PageNext ==
    \/ \E outcome \in ReadOutcomes : ReadKeyring(outcome)
    \/ \E outcome \in PageOutcomes(This) : GetFirstPage(outcome)
    \/ \E outcome \in PageOutcomes(This) : GetNextPage(outcome)
    \/ \E outcome \in PageOutcomes(This) : GetPreviousPage(outcome)
    \/ AddAccounts(1)

PageSpec == Init /\ [][PageNext]_vars

\* The account list: device reads, addAccounts, setAccountToUnlock(0),
\* setCurrentAccount, removeAccount
AccountsNext ==
    \/ \E outcome \in ReadOutcomes : ReadKeyring(outcome)
    \/ \E n \in 1..MaxUnlock :
          unlockedAccount + n <= MaxAccounts /\ AddAccounts(n)
    \/ SetAccountToUnlock(0)
    \/ \E index \in 0..(MaxAccounts - 1) : SetCurrentAccount(index)
    \/ \E address \in RemovalTargets : RemoveAccount(address)

AccountsSpec == Init /\ [][AccountsNext]_vars

\* Device reads on a keyring that is paired with one device after another:
\* readKeyring, getFirstPage with its lazy read, one addAccounts(1)
ReadNext ==
    \/ \E d \in Pairable : Pair(d)
    \/ \E outcome \in ReadOutcomes : ReadKeyring(outcome)
    \/ \E outcome \in PageOutcomes(This) : GetFirstPage(outcome)
    \/ accounts = <<>> /\ AddAccounts(1)

ReadSpec == Init /\ [][ReadNext]_vars

\* Persistence: serialize and deserialize, with a device read and
\* addAccounts(1) to give the instance a state of its own
StoreNext ==
    \/ ReadKeyring(<<device>>)
    \/ unlockedAccount < MaxUnlock /\ AddAccounts(1)
    \/ SerializeCall
    \/ \E opts \in RecordsAtHand : DeserializeCall(opts)

\* an empty keyring of either class, paired with the first HD device
StoreInit ==
    /\ Init
    /\ device = HdKeyDescriptor(Fingerprint, XpubA, <<>>, "Keystone", STANDARD)

StoreSpec == StoreInit /\ [][StoreNext]_vars

\* the address the keyring itself derives at index 1, as a page shows it
OwnSigners ==
    IF DerivesLocally THEN {addressFromIndex(1).address} ELSE {}

\* A keyring that starts empty: device reads, addAccounts and the start of
\* the signing operations until one has sent its request, which is canceled
FreshNext ==
    \/ \E outcome \in ReadOutcomes : ReadKeyring(outcome)
    \/ \E n \in 1..MaxUnlock : AddAccounts(n)
    \/ \E kind \in DataTypes, signer \in Signers \cup OwnSigners :
          \E input \in SignInputs(kind) :
             issued = <<>> /\ SignStart(kind, signer, input)
    \/ PlayCanceled
    \/ InteractionRejected

FreshSpec == Init /\ [][FreshNext]_vars

\* Unlocking across restarts: device reads, addAccounts, and the keyring
\* rebuilt from its own record
RestartNext ==
    \/ \E outcome \in ReadOutcomes : ReadKeyring(outcome)
    \/ \E n \in 1..MaxUnlock : AddAccounts(n)
    \/ Restart

RestartSpec == Init /\ [][RestartNext]_vars

\* Unlocking with calls in progress at the same time: device reads, and
\* addAccounts of BaseKeyring step by step
ConcurrentNext ==
    \/ \E outcome \in ReadOutcomes : unlocking = <<>> /\ ReadKeyring(outcome)
    \/ \E n \in 1..MaxUnlock : AddAccountsBegin(n)
    \/ \E j \in 1..Len(unlocking) : AddAccountsResume(j)

ConcurrentSpec == Init /\ [][ConcurrentNext]_vars

\* ------------------------------------------------------------------------
\* Properties of the signing operations
\* ------------------------------------------------------------------------
\* a response envelope has been read in the operation
ResponseRead == flow.phase \in {"Validated", "Mismatched"}

\* the identifier the response carries differs from the one generated
ResponseIdDiffers ==
    /\ flow.response.requestId # <<>>
    /\ UuidStringify(flow.response.requestId[1]) # flow.requestId

\* C1: in every signing operation (transaction, personal message, typed
\* data), a response whose correlation identifier differs from the one
\* generated for the request makes the operation fail with "mismatched
\* requestId" (CorrelationMismatch), and neither r, s, v nor a signed
\* artifact is returned.
C1_MismatchFails ==
    (ResponseRead /\ ResponseIdDiffers) =>
        /\ flow.phase = "Mismatched"
        /\ flow.err = "mismatched requestId"
        /\ flow.sig = NoSig
        /\ flow.ret = NoArtifact

C1_Witness ==
    /\ flow.phase = "Mismatched"
    /\ ResponseIdDiffers
    /\ flow.kind = TYPED_DATA
    /\ Len(flow.response.signature) = V_END_LEGACY

\* C2: when play ends canceled the read of the signature is never started
\* in that operation and the operation fails with "play canceled"
\* (UserCanceled); a read is started only after play has completed. (The
\* play and read calls of AirGapedKeyring; BaseKeyring hands both to its
\* interaction provider in one call.)
C2_CanceledPlayNeverReads ==
    /\ flow.playStatus = "canceled" =>
          /\ ~flow.readStarted
          /\ flow.phase = "Canceled"
          /\ flow.err = "play canceled"
          /\ flow.response = NoEnvelope
          /\ flow.ret = NoArtifact
    /\ flow.readStarted => flow.playStatus = "completed"
    /\ flow.phase = "AwaitingResponse" => flow.readStarted

C2_Witness ==
    /\ flow.playStatus = "canceled"
    /\ flow.phase = "Canceled"
    /\ flow.kind = PERSONAL_MESSAGE

\* C3: a response that carries no correlation identifier is accepted
\* whatever identifier the request generated: the operation ends Validated
\* and returns r = bytes [0,32) and s = bytes [32,64) of the signature with
\* the v taken from offset 64.
C3_MissingIdAccepted ==
    (ResponseRead /\ flow.response.requestId = <<>>) =>
        /\ flow.phase = "Validated"
        /\ flow.err = ""
        /\ flow.ret # NoArtifact
        /\ \A k \in 1..Len(flow.response.signature) :
              /\ k <= 32 => flow.sig.r[k] = flow.response.signature[k]
              /\ (k > 32 /\ k <= 64) =>
                    flow.sig.s[k - 32] = flow.response.signature[k]
              /\ k = 65 => flow.sig.v[1] = flow.response.signature[k]

C3_Witness ==
    /\ flow.phase = "Validated"
    /\ flow.response.requestId = <<>>
    /\ Len(flow.response.signature) = V_END_LEGACY
    /\ Len(issued) = MaxRequests

\* C4: every request gets an identifier different from those of the
\* keyring's earlier requests; a response carrying the identifier of an
\* earlier request is rejected with "mismatched requestId"; and once such a
\* rejection has happened, an operation whose response echoes its own
\* request's identifier still ends Validated.
C4_StaleResponseRejected ==
    /\ \A j, k \in 1..Len(issued) : j # k => issued[j] # issued[k]
    /\ (/\ ResponseRead
        /\ flow.response.requestId # <<>>
        /\ UuidStringify(flow.response.requestId[1]) \in EarlierIds) =>
          /\ flow.phase = "Mismatched"
          /\ flow.err = "mismatched requestId"
          /\ flow.ret = NoArtifact
    /\ (/\ rejected
        /\ ResponseRead
        /\ flow.response.requestId # <<>>
        /\ UuidStringify(flow.response.requestId[1]) = flow.requestId) =>
          /\ flow.phase = "Validated"
          /\ flow.ret # NoArtifact

C4_Witness ==
    /\ rejected
    /\ flow.phase = "Validated"
    /\ flow.response.requestId # <<>>
    /\ flow.kind = TRANSACTION

\* C5: on a validated response r is bytes [0,32), s is bytes [32,64) and v
\* is every remaining byte, so that r | s | v is the raw signature, for
\* every signature of 65 bytes or more.
C5_SplitWithoutLoss ==
    (flow.phase = "Validated" /\ Len(flow.response.signature) >= 65) =>
        /\ flow.sig.r = SubSeq(flow.response.signature, 1, 32)
        /\ flow.sig.s = SubSeq(flow.response.signature, 33, 64)
        /\ flow.sig.v = SubSeq(flow.response.signature, 65,
                               Len(flow.response.signature))
        /\ flow.sig.r \o flow.sig.s \o flow.sig.v = flow.response.signature

\* ------------------------------------------------------------------------
\* Properties of the account window
\* ------------------------------------------------------------------------
PageCalls == {"getFirstPage", "getNextPage", "getPreviousPage"}

\* the last call was a page call that returned a page
PageReturned == last.op \in PageCalls /\ last.err = ""

\* the page was served from the extended key (__getNormalPage, or the
\* __getPage of AirGapedKeyring)
ServedFromKey == keyringClass = LegacyClass \/ keyringMode = HD

\* the address at index i: derived from the key of the keyring's HDKey node
\* at the children path resolved for i, or, in PUBKEY mode, the one the
\* device enumerated for account i
AddressOfIndex(i) ==
    IF ServedFromKey
    THEN toChecksumAddress(publicToAddress(
            DerivePublicKey(hdk,
                IF keyringClass = LegacyClass THEN <<"0", ToString(i)>>
                ELSE ResolveChildren(childrenPath, i))))
    ELSE AddressAt(keyringClass, This, i).address

\* the entries of page p
IsPage(entries, p) ==
    /\ Len(entries) = perPage
    /\ \A j \in 1..perPage :
          /\ entries[j].index = (p - 1) * perPage + j - 1
          /\ entries[j].address = AddressOfIndex(entries[j].index)
          /\ entries[j].balance = "null"

\* C6: whatever the page cursor was (after getNextPage, getPreviousPage or
\* addAccounts calls), a getFirstPage call that returns leaves the cursor
\* at 1 and returns the entries of page 1, indices 0 .. pageSize-1.
C6_FirstPageResets ==
    (last.op = "getFirstPage" /\ last.err = "") =>
        /\ page = 1
        /\ IsPage(last.ret, 1)

C6_Witness ==
    /\ last.op = "getFirstPage"
    /\ last.err = ""
    /\ last.pre.page = MaxPage
    /\ last.pre.accounts # <<>>
    /\ page = 1

\* C7: where pages are served from the extended key (HD mode), the cursor
\* is at least 1 after every page call that returned; getPreviousPage
\* called with the cursor at 1, or at 0, leaves it at 1 and returns page 1.
C7_CursorAtLeastOne ==
    (PageReturned /\ ServedFromKey) =>
        /\ page >= 1
        /\ (last.op = "getPreviousPage" /\ last.pre.page \in {0, 1}) =>
              /\ page = 1
              /\ IsPage(last.ret, 1)

C7_Witness ==
    /\ PageReturned
    /\ keyringMode = HD
    /\ last.op = "getPreviousPage"
    /\ last.pre.page = 0
    /\ last.pre.accounts # <<>>
    /\ page = 1

\* C8: in HD mode a page call that returns with the cursor at p returns
\* exactly pageSize entries, with indices (p-1)*pageSize .. p*pageSize-1 in
\* ascending order, each with the address derived at its index and balance
\* null, and afterwards the index table maps each returned address to its
\* index.
C8_PageContents ==
    (PageReturned /\ ServedFromKey) =>
        /\ IsPage(last.ret, page)
        /\ \A j \in 1..Len(last.ret) :
              /\ last.ret[j].address \in DOMAIN indexes
              /\ indexes[last.ret[j].address] = last.ret[j].index

C8_Witness ==
    /\ PageReturned
    /\ keyringClass = BaseClass
    /\ keyringMode = HD
    /\ page = MaxPage
    /\ Len(last.ret) = DEFAULT_PER_PAGE

\* the index at which an address of accounts was produced
IndexOfAccount(a) ==
    CHOOSE i \in 0..(LedgerLiveAccounts + MaxAccounts) : AddressOfIndex(i) = a

\* C9 as stated: addAccounts(n) derives the n addresses at consecutive
\* indices starting at 0 on a keyring with no unlocked account and at the
\* index after the last one unlocked otherwise, appends them in index order
\* to accounts, and sets the page cursor to 0.
C9_StartsAfterLastUnlocked ==
    (last.op = "addAccounts" /\ last.err = "") =>
        LET from == IF last.pre.accounts = <<>> THEN 0
                    ELSE IndexOfAccount(
                            last.pre.accounts[Len(last.pre.accounts)]) + 1
        IN
        /\ accounts = last.pre.accounts \o
                      [j \in 1..last.arg |-> AddressOfIndex(from + j - 1)]
        /\ page = 0

\* C9, amended: addAccounts(n) that returns has produced the n addresses
\* at the consecutive indices starting at the unlock cursor (0 on a new
\* keyring, the value given to setAccountToUnlock, one more for every
\* address addAccounts has produced), appended them in index order to the
\* end of accounts with the earlier entries left in place, returned
\* accounts, moved the unlock cursor n further, and, for n >= 1, set the
\* page cursor to 0; for n = 0 the page cursor stays.
C9_AppendsFromUnlockCursor ==
    (last.op = "addAccounts" /\ last.err = "") =>
        LET from == last.pre.unlockedAccount IN
        /\ accounts = last.pre.accounts \o
                      [j \in 1..last.arg |-> AddressOfIndex(from + j - 1)]
        /\ last.ret = accounts
        /\ unlockedAccount = from + last.arg
        /\ page = IF last.arg >= 1 THEN 0 ELSE last.pre.page

C9_Witness ==
    /\ last.op = "addAccounts"
    /\ last.err = ""
    /\ last.arg = 2
    /\ last.pre.accounts # <<>>
    /\ last.pre.unlockedAccount = MaxUnlock
    /\ last.pre.page = 1
    /\ page = 0

\* C10: when addAccounts(n) fails, also after some of its n addresses were
\* produced, accounts is what it was before the call.
C10_FailedUnlockAppendsNothing ==
    (last.op = "addAccounts" /\ last.err # "") =>
        accounts = last.pre.accounts

C10_Witness ==
    /\ last.op = "addAccounts"
    /\ last.err = "no_expected_account"
    /\ last.arg = 2
    /\ unlockedAccount = last.pre.unlockedAccount + 1
    /\ last.pre.accounts # <<>>
    /\ accounts = last.pre.accounts

\* ------------------------------------------------------------------------
\* Properties of the account list
\* ------------------------------------------------------------------------
\* C11: accounts never holds the same address twice, letter case ignored.
C11_AccountsUnique ==
    \A j, h \in 1..Len(accounts) :
        j # h => toLowerCase(accounts[j]) # toLowerCase(accounts[h])

\* C12: removeAccount(a) compares with the letter case ignored. When no
\* entry of accounts equals a that way, it fails with "not found in this
\* keyring" (AddressNotFound) and accounts is as before; otherwise it
\* succeeds, no entry of accounts equals a afterwards, and the other
\* entries are all there in the order they had.
C12_RemoveIgnoresCase ==
    last.op = "removeAccount" =>
        LET Other(a) == toLowerCase(a).pk # toLowerCase(last.arg).pk
            before == last.pre.accounts
        IN
        IF \E j \in 1..Len(before) : ~Other(before[j])
        THEN /\ last.err = ""
             /\ \A j \in 1..Len(accounts) : Other(accounts[j])
             /\ accounts = SelectSeq(before, Other)
        ELSE /\ last.err = "not found in this keyring"
             /\ accounts = before

C12_Witness ==
    /\ last.op = "removeAccount"
    /\ last.err = ""
    /\ last.arg.form = "upper"
    /\ Len(last.pre.accounts) = MaxAccounts
    /\ toLowerCase(last.pre.accounts[1]) = toLowerCase(last.arg)
    /\ Len(accounts) = MaxAccounts - 1
    /\ accounts[1] # accounts[2]

\* C13: whenever accounts is non-empty, currentAccount is an index of it:
\* 0 <= currentAccount < accounts.length.
C13_CurrentAccountInRange ==
    accounts # <<>> => (0 <= currentAccount /\ currentAccount < Len(accounts))

\* ------------------------------------------------------------------------
\* Properties of persistence
\* ------------------------------------------------------------------------
\* what serialize() returns in this state
Serialized == Serialize(keyringClass, Fields)

\* C14 as stated: for every stored record S, serialize() after
\* deserialize(S) returns S, field by field.
C14_RoundTripEveryRecord ==
    last.op = "deserialize" => Serialized = last.arg

\* a record with every field of the layout present, as this version
\* writes it
AsWritten(S) ==
    keyringClass = BaseClass =>
        /\ S.version = 1
        /\ S.keyringMode # ""
        /\ S.keyringAccount # ""
        /\ S.childrenPath # <<>>

\* C14, amended: for every stored record S of version 1 in which
\* keyringMode, keyringAccount and childrenPath are present and non-empty
\* (every record serialize() returns is one), and for every AirGapedKeyring
\* record, serialize() after deserialize(S) returns S, each field with the
\* value it had in S.
C14_RoundTripWrittenRecords ==
    (last.op = "deserialize" /\ AsWritten(last.arg)) =>
        /\ Serialized = last.arg
        /\ \A field \in DOMAIN last.arg : Serialized[field] = last.arg[field]

C14_Witness ==
    /\ last.op = "deserialize"
    /\ keyringClass = BaseClass
    /\ AsWritten(last.arg)
    /\ last.arg.keyringMode = PUBKEY
    /\ last.arg.paths # <<>>
    /\ last.arg.childrenPath = <<"*", "*">>
    /\ last.pre.accounts # last.arg.accounts
    /\ Serialized = last.arg

\* ------------------------------------------------------------------------
\* Properties of the path lookup
\* ------------------------------------------------------------------------
\* the signing call has looked the signer's path up on a keyring that
\* derives its addresses from the extended key
PathLookedUp ==
    /\ flow.phase # "Idle"
    /\ keyringClass = LegacyClass \/ keyringMode = HD
    /\ ~checkKeyringFails(xfp, xpub, hdPath)

\* the address this keyring derives at index i
DerivedAt(i) ==
    toChecksumAddress(publicToAddress(
        DerivePublicKey(HdkInUse,
            IF keyringClass = LegacyClass THEN <<"0", ToString(i)>>
            ELSE ResolveChildren(childrenPath, i))))

\* the indexes of the addresses callers sign with: cached ones, one past
\* the cache, the last index of the scan and the first one past it
SignerIndexes == {0, 1, DEFAULT_PER_PAGE + 2, MAX_INDEX - 1, MAX_INDEX}

\* C15: in HD mode the path lookup for the address derived at an index i
\* below MAX_INDEX succeeds with a path whose last component is i, whether
\* or not the address is in the index table; for an address that is not in
\* the table and is derived at no index below MAX_INDEX it fails with
\* "Unknown address".
C15_PathRecoversIndex ==
    PathLookedUp =>
        LET cs == toChecksumAddress(flow.signer) IN
        /\ \A i \in SignerIndexes :
              (i < MAX_INDEX /\ cs = DerivedAt(i)) =>
                  /\ flow.phase # "Failed"
                  /\ flow.request.path[Len(flow.request.path)] = ToString(i)
        /\ (/\ cs \notin ScanRange[keyringClass, HdkInUse, childrenPath]
            /\ cs \notin DOMAIN indexes) =>
              /\ flow.phase = "Failed"
              /\ flow.err = "Unknown address"

C15_Witness ==
    /\ PathLookedUp
    /\ keyringClass = BaseClass
    /\ flow.signer = HdAddress(XpubA, MAX_INDEX - 1)
    /\ toChecksumAddress(flow.signer) \notin DOMAIN indexes
    /\ flow.phase = "Validated"
    /\ flow.request.path = hdPath \o <<"0", ToString(MAX_INDEX - 1)>>

\* ------------------------------------------------------------------------
\* Properties of device reads
\* ------------------------------------------------------------------------
\* the last call read the device and the transport returned a descriptor
ReadReturned == last.read /\ last.arg # <<>>

\* the fields a device read is there to fill
DeviceFields ==
    {"keyringMode", "keyringAccount", "xfp", "xpub", "hdPath",
     "childrenPath", "paths", "initialized"}

\* the fields of DeviceFields the last call left with another value
Touched == {field \in DeviceFields : This[field] # last.pre[field]}

\* C16: a read that returns a descriptor which is neither the HD-key nor
\* the multi-account variant fails with "unsupported device data", is not
\* processed as one of the two variants (the mode it found stays) and
\* does not mark the keyring initialized.
C16_OtherDescriptorRefused ==
    (ReadReturned /\ last.arg[1].type \notin {CRYPTO_HDKEY, CRYPTO_ACCOUNT})
        => /\ last.err = "unsupported device data"
           /\ keyringMode = last.pre.keyringMode
           /\ initialized = last.pre.initialized

\* C17: a read that returns a descriptor of either variant without a
\* source fingerprint fails with "cannot get fingerprint" and leaves mode,
\* account variant, fingerprint, key, path, children template, path table
\* and the initialized flag as they were.
C17_NoFingerprintMutatesNothing ==
    (/\ ReadReturned
     /\ last.arg[1].type \in {CRYPTO_HDKEY, CRYPTO_ACCOUNT}
     /\ last.arg[1].xfp = "")
        => /\ last.err = "cannot get fingerprint"
           /\ Touched = {}

\* the descriptor the last read returned
Returned == last.arg[1]

\* C18 as stated: an initialized keyring has a fingerprint and an extended
\* public key.
C18_InitializedHasBothKeys ==
    initialized => (xfp # "" /\ xpub # "")

\* C18: an initialized keyring has a fingerprint; a keyring that is not
\* initialized has neither fingerprint nor extended public key; only a read
\* that returned a fingerprint marks the keyring initialized, and it leaves
\* that fingerprint; only a read of an HD-key descriptor changes the
\* extended public key, to the descriptor's key; a read of a multi-account
\* descriptor initializes the keyring and leaves the extended public key
\* as it was, empty on a keyring no HD key was read into.
C18_InitializedHasFingerprint ==
    /\ initialized => xfp # ""
    /\ (keyringClass = BaseClass /\ ~initialized) => (xfp = "" /\ xpub = "")
    /\ (initialized /\ ~last.pre.initialized) =>
          /\ ReadReturned
          /\ Returned.xfp # ""
          /\ xfp = Returned.xfp
    /\ xpub # last.pre.xpub =>
          /\ ReadReturned
          /\ Returned.type = CRYPTO_HDKEY
          /\ xpub = Returned.xpub
    /\ (/\ keyringClass = BaseClass
        /\ ReadReturned
        /\ Returned.xfp # "") =>
          CASE Returned.type = CRYPTO_HDKEY ->
                  initialized /\ xpub = Returned.xpub /\ xpub # ""
            [] Returned.type = CRYPTO_ACCOUNT ->
                  initialized /\ xpub = last.pre.xpub
            [] OTHER -> initialized = last.pre.initialized

C18_Witness ==
    /\ ReadReturned
    /\ Returned.type = CRYPTO_ACCOUNT
    /\ last.err = ""
    /\ ~last.pre.initialized
    /\ initialized
    /\ xfp = Fingerprint
    /\ xpub = ""

\* ------------------------------------------------------------------------
\* Properties of the lazy read
\* ------------------------------------------------------------------------
\* C19: a page call of BaseKeyring reads the device exactly when the
\* keyring was not initialized at the call; a keyring that was initialized
\* stays so, whence no later page call reads; a page call whose read was
\* canceled or failed ends with that error and returns no page.
C19_PageReadsOnlyUninitialized ==
    /\ last.pre.initialized => initialized
    /\ (last.op \in PageCalls /\ keyringClass = BaseClass) =>
          /\ last.read <=> ~last.pre.initialized
          /\ (last.read /\ ~initialized) =>
                /\ last.err # ""
                /\ last.ret = <<>>
          /\ (last.read /\ last.arg = <<>>) =>
                /\ ~initialized
                /\ last.err = "read canceled"
          /\ ReadReturned =>
                IF Returned.type \notin {CRYPTO_HDKEY, CRYPTO_ACCOUNT}
                THEN ~initialized
                ELSE IF Returned.xfp = ""
                THEN ~initialized /\ last.err = "cannot get fingerprint"
                ELSE initialized

C19_Witness ==
    /\ keyringClass = BaseClass
    /\ last.op \in PageCalls
    /\ last.read
    /\ ~last.pre.initialized
    /\ initialized
    /\ last.err = ""
    /\ last.ret # <<>>

\* ------------------------------------------------------------------------
\* Properties of reading again
\* ------------------------------------------------------------------------
\* readKeyring was called on a keyring that was initialized and had
\* unlocked accounts and cached indexes
ReadAgain ==
    /\ last.op = "readKeyring"
    /\ last.pre.initialized
    /\ last.pre.accounts # <<>>
    /\ last.pre.indexes # EmptyMap

Unfulfilled(k) ==
    /\ keyringClass = LegacyClass \/ k.keyringMode = HD
    /\ k.xfp = "" \/ k.xpub = "" \/ k.hdPath = <<>>

C22_ScanResultCached ==
    (PathLookedUp /\ flow.phase # "Failed") =>
        LET cs == toChecksumAddress(flow.signer) IN
        /\ cs \in DOMAIN indexes
        /\ ToString(indexes[cs]) = flow.request.path[Len(flow.request.path)]

\* ------------------------------------------------------------------------
\* Properties of the pages of a multi-account keyring
\* ------------------------------------------------------------------------
\* the last call was a page call on a keyring in PUBKEY mode
LedgerLivePaged ==
    /\ keyringClass = BaseClass
    /\ last.op \in PageCalls
    /\ keyringMode = PUBKEY

\* C23: in PUBKEY mode getPreviousPage at cursor 1 completes without error
\* and leaves the cursor at 0, and getNextPage and getPreviousPage that
\* return a page have moved the cursor by +1 and -1.
C23_PubkeyCursorUnclamped ==
    LedgerLivePaged =>
        /\ (last.op = "getPreviousPage" /\ last.pre.page = 1) =>
              /\ last.err = ""
              /\ page = 0
        /\ (last.op = "getNextPage" /\ last.err = "") =>
              page = last.pre.page + 1
        /\ (last.op = "getPreviousPage" /\ last.err = "") =>
              page = last.pre.page - 1

\* ------------------------------------------------------------------------
\* Properties of the Path Deriver
\* ------------------------------------------------------------------------
\* the last call returned a page of BaseKeyring derived from the key
DerivedPage ==
    /\ PageReturned
    /\ keyringClass = BaseClass
    /\ keyringMode = HD

\* the children path the address of a page entry was derived at
DerivedChildren(entry) == entry.address.pk.path

\* C24 as stated: the address of index i is derived at the template with
\* every wildcard replaced by i.
C24_EveryWildcardCarriesIndex ==
    DerivedPage =>
        \A j \in 1..Len(last.ret) :
            LET at == DerivedChildren(last.ret[j]) IN
            /\ Len(at) = Len(childrenPath)
            /\ \A k \in 1..Len(at) :
                  at[k] = IF childrenPath[k] = "*"
                          THEN ToString(last.ret[j].index)
                          ELSE childrenPath[k]

\* C24: the address of index i is derived at the template with its first
\* wildcard replaced by i and every later wildcard replaced by 0; the
\* other components are the template's.
C24_FirstWildcardCarriesIndex ==
    DerivedPage =>
        \A j \in 1..Len(last.ret) :
            LET at == DerivedChildren(last.ret[j]) IN
            /\ Len(at) = Len(childrenPath)
            /\ \A k \in 1..Len(at) :
                  at[k] = IF childrenPath[k] # "*"
                          THEN childrenPath[k]
                          ELSE IF \A h \in 1..(k - 1) : childrenPath[h] # "*"
                          THEN ToString(last.ret[j].index)
                          ELSE "0"

C24_Witness ==
    /\ DerivedPage
    /\ childrenPath = <<"*", "*">>
    /\ \E j \in 1..Len(last.ret) :
          /\ last.ret[j].index = DEFAULT_PER_PAGE + 1
          /\ DerivedChildren(last.ret[j]) =
                <<ToString(DEFAULT_PER_PAGE + 1), "0">>

\* the extended key the address was derived from
DerivedFrom(address) == address.pk.xpub

\* C25: on a keyring that derives from the extended key, every address of
\* a returned page and every address addAccounts has appended is derived
\* from the extended public key the keyring holds at that moment.
C25_DerivedFromCurrentKey ==
    ServedFromKey =>
        /\ PageReturned =>
              \A j \in 1..Len(last.ret) :
                  DerivedFrom(last.ret[j].address) = xpub
        /\ (last.op = "addAccounts" /\ last.err = "") =>
              \A j \in (Len(last.pre.accounts) + 1)..Len(accounts) :
                  DerivedFrom(accounts[j]) = xpub

\* ------------------------------------------------------------------------
\* Properties of the path a request carries
\* ------------------------------------------------------------------------
\* C26: the path a signing request of BaseKeyring in HD mode carries is the
\* path the signer's address is derived at: hdPath followed by the
\* children path resolved at the signer's index.
C26_RequestCarriesDerivationPath ==
    (PathLookedUp /\ keyringClass = BaseClass /\ flow.phase # "Failed") =>
        flow.request.path = hdPath \o flow.signer.pk.path

\* ------------------------------------------------------------------------
\* Properties of unlocking after a restart
\* ------------------------------------------------------------------------
\* C27: on the keyring rebuilt from the record of a keyring, addAccounts(n)
\* ends as it would have on that keyring: with the same error or the same
\* accounts list.
C27_RestoreTransparentToUnlock ==
    last.op = "restart" =>
        \A n \in 1..MaxUnlock :
            LET restored == AddAccountsOn(keyringClass, This, n)
                original == AddAccountsOn(keyringClass, last.pre, n)
            IN  /\ restored.err = original.err
                /\ restored.k.accounts = original.k.accounts

\* ------------------------------------------------------------------------
\* Properties of a failed unlock
\* ------------------------------------------------------------------------
\* C28: an addAccounts call that fails leaves the unlock cursor and the
\* page cursor as they were.
C28_FailedUnlockKeepsCursors ==
    (last.op = "addAccounts" /\ last.err # "") =>
        /\ unlockedAccount = last.pre.unlockedAccount
        /\ page = last.pre.page

\* ------------------------------------------------------------------------
\* Properties of concurrent unlocking
\* ------------------------------------------------------------------------
\* C29: once the addAccounts calls started on a keyring in HD mode have all
\* ended, calls that overlapped included, no address is in accounts twice
\* and the unlock cursor is the number of addresses unlocked.
C29_OverlappingUnlocksDisjoint ==
    (keyringClass = BaseClass /\ keyringMode = HD /\ unlocking = <<>>) =>
        /\ \A i, j \in 1..Len(accounts) : accounts[i] = accounts[j] => i = j
        /\ unlockedAccount = Cardinality(Range(accounts))

====
